---- MODULE Spec2Model ----
(***************************************************************************)
(* Forward simulation of biomass (B) and soil depth (D) with two learned   *)
(* derivative predictors (src/src/modules/forward_simulation.py).          *)
(*                                                                         *)
(* Spec      one call of forward_simulation, from the point where the      *)
(*           trajectory array sim_data has been handed over (line 10) to   *)
(*           its return or its abort.                                      *)
(* SpecTwice the same call made again with the same arguments.             *)
(* SpecLoad  one call of preprocess_fwd_sim_data on the raw files.         *)
(* SpecTrain calls of train_models (src/modules/train_models.py), one      *)
(*           after the other, in one Python process.                       *)
(*                                                                         *)
(* forward_simulation reads nothing of the loader but the array it         *)
(* returns, so Spec starts from any array of rows (B, D, g, jumps) with    *)
(* B, D, g >= 0, the empty one included.                                   *)
(*                                                                         *)
(* Numbers.  B, D and g are integers.  A slope is an even integer per      *)
(* year, so slope*dt (dt = 1/2) is an integer.  Times are counted in       *)
(* ticks of 1/TicksPerYear year; an entry of the time vector is a          *)
(* fraction [num, den] of ticks.  Arrays are functions on 0..n-1, as in    *)
(* the source.                                                             *)
(***************************************************************************)
EXTENDS Integers, Sequences, FiniteSets, TLC

VARIABLES
  sim_data,        \* the trajectory array: rows of (B, D, g, jumps)
  max_years,       \* cfg.max_years, in ticks
  freq_progress,   \* cfg.freq_progress, a fraction [num, den]
  pc,              \* where the call of forward_simulation is
  err,             \* the exception that aborted it, or "none"
  B_true, D_true, g, jumps,
  n_years, n_steps, steps_progress, step,
  B_for, D_for, B_nn, D_nn,
  t,               \* the time vector
  files,           \* the result files the call has written
  csv_rows,        \* rows of fwd_sim_<name>.csv (-1: not written)
  progress,        \* the steps at which progress was printed
  nn_memo, rf_memo,\* what each predictor has returned, per input
  run, prev,       \* which call this is, and the previous call's outcome
  raw,             \* the raw files of the simulation's folder
  loader,          \* preprocess_fwd_sim_data: its locals and where it is
  default_vars,    \* the list object that is train_models' default add_train_vars
  caller_vars,     \* a list a caller of train_models keeps and passes
  train_summary,   \* whether data/train_summary.pkl exists
  tm               \* train_models: the call in progress, or the last one

training == <<default_vars, caller_vars, train_summary, tm>>
inputs == <<sim_data, max_years, freq_progress, raw, loader, training>>
truth  == <<B_true, D_true, g, jumps>>
params == <<n_years, n_steps, steps_progress>>
sims   == <<B_for, D_for, B_nn, D_nn>>
memos  == <<nn_memo, rf_memo>>
calls  == <<run, prev>>
vars   == <<inputs, pc, err, truth, params, step, sims, t, files, csv_rows,
           progress, memos, calls>>

-----------------------------------------------------------------------------
(* Bounds of the model *)
MaxLen == 3        \* longest trajectory handed to forward_simulation
MaxRuns == 2       \* calls of forward_simulation with the same arguments
MaxBlocks == 2     \* most blocks of raw samples in a raw file
MaxCalls == 3      \* calls of train_models in one process

(* Program constants *)
DtNum == 1
DtDen == 2         \* dt = 0.5 = DtNum / DtDen
SliceStart == 25   \* [25:-1]
BlockSize == 26    \* reshape(-1, 26, 3), jumps[::26]
HoursPerDay == 24
DaysPerYear == 365 \* grazing * 24 * 365

TicksPerYear == 2 * DtDen
dt == (TicksPerYear * DtNum) \div DtDen      \* dt in ticks

-----------------------------------------------------------------------------
(* Arrays *)
Max(a, b) == IF a >= b THEN a ELSE b
Min(a, b) == IF a <= b THEN a ELSE b

ALen(a) == Cardinality(DOMAIN a)
Empty == [i \in {} |-> 0]

\* np.ones((n)) * v
Ones(n, v) == [i \in 0..(n - 1) |-> v]

\* a[:n]
Take(a, n) == [i \in 0..(Min(n, ALen(a)) - 1) |-> a[i]]

Set(a, i, v) == [a EXCEPT ![i] = v]

\* a[0]: the value, or ok = FALSE where Python raises IndexError
FirstOrZero(a) ==
  IF 0 \in DOMAIN a THEN [ok |-> TRUE, v |-> a[0]] ELSE [ok |-> TRUE, v |-> 0]

First(a) ==
  IF 0 \in DOMAIN a THEN [ok |-> TRUE, v |-> a[0]] ELSE [ok |-> FALSE, v |-> 0]

-----------------------------------------------------------------------------
(* The inputs of a call *)

\* (B, D, g) of a ground-truth sample: B >= 0, D >= 0, g >= 0
TruthStates ==
  { [B |-> 0, D |-> 3, g |-> 1],
    [B |-> 2, D |-> 0, g |-> 2],
    [B |-> 1, D |-> 1, g |-> 1] }

Rows ==
  { [B |-> s.B, D |-> s.D, g |-> s.g, jumps |-> j] :
      s \in TruthStates, j \in BOOLEAN }

Trajectories == UNION { [0..(L - 1) -> Rows] : L \in 0..MaxLen }

\* cfg.max_years in ticks: a quarter of a year, a year and a quarter, a century
MaxYearsValues == {1, 5, 100 * TicksPerYear}

\* cfg.freq_progress
FreqValues ==
  { [num |-> 1, den |-> 3], [num |-> 1, den |-> 2], [num |-> 1, den |-> 1] }

\* What a predictor does with one input: it returns (dB/dt, dD/dt) or raises
Outcomes ==
  { [ok |-> TRUE,  dB |-> 2,  dD |-> -6],
    [ok |-> TRUE,  dB |-> -6, dD |-> 2],
    [ok |-> FALSE, dB |-> 0,  dD |-> 0] }

-----------------------------------------------------------------------------
(* The predictors.  A loaded model is a function of its input: a memo holds *)
(* the part of that function the calls so far have seen.                    *)

Seen(memo, x) == \E m \in memo : m.in = x
Lookup(memo, x) == (CHOOSE m \in memo : m.in = x).out
Remember(memo, x, out) ==
  IF Seen(memo, x) THEN memo ELSE memo \cup {[in |-> x, out |-> out]}

predict_stochastic(memo, x, out) == out \in Outcomes

\* rforest.predict: the median over the fitted trees
rforest_predict(memo, x, out) ==
  IF Seen(memo, x) THEN out = Lookup(memo, x) ELSE out \in Outcomes

\* nnetwork.predict
nnetwork_predict(memo, x, out) ==
  IF Seen(memo, x) THEN out = Lookup(memo, x) ELSE out \in Outcomes

-----------------------------------------------------------------------------
(* forward_simulation: the run parameters *)

\* n_years = min(cfg.max_years, dt*len(B_true))
NYears(my, len) == Min(my, dt * len)

NStepsUp(ny) == (ny + dt - 1) \div dt

\* n_steps = int(n_years/dt)
NSteps(ny) == ny \div dt

\* steps_progress = int(n_steps*cfg.freq_progress)
StepsProgress(ns, freq) == (ns * freq.num) \div freq.den

\* step % steps_progress == 0
ShowProgress(s, sp) == s % sp = 0

(* forward_simulation: one step *)

JumpValuePrevious(true_arr, s) == true_arr[s - 1]

\* X[step] = X_true[step]
JumpValue(true_arr, s) == true_arr[s]

\* np.array([[B[step-1], D[step-1], g[step-1]]])
PredictorInput(B, D, gg, s) == <<B[s - 1], D[s - 1], gg[s - 1]>>

EulerNoDt(previous, slope) == previous + slope

\* X[step-1] + slope*dt
Euler(previous, slope) == previous + (slope * DtNum) \div DtDen

ClampNone(x) == x

\* np.maximum(x, 0.0)
Clamp(x) == Max(x, 0)

\* range(1, n_steps) is exhausted
LoopDoneEarly(s, ns) == s >= ns - 1

LoopDone(s, ns) == s >= ns

\* np.linspace(start, stop, num), endpoint included
linspace(start, stop, num) ==
  [k \in 0..(num - 1) |->
     IF num = 1 THEN [num |-> start, den |-> 1]
     ELSE [num |-> start * (num - 1) + k * (stop - start), den |-> num - 1]]

\* np.column_stack(list(save_vars.values())): the rows, or ok = FALSE where
\* numpy raises ValueError because the columns differ in length
column_stack(lens) ==
  IF \A a, b \in lens : a = b
  THEN [ok |-> TRUE, rows |-> CHOOSE a \in lens : TRUE]
  ELSE [ok |-> FALSE, rows |-> -1]

-----------------------------------------------------------------------------
(* preprocess_fwd_sim_data(sim_name) *)

\* Column 1 of a raw file, row by row; every value is even
FileValue(pattern, r) ==
  CASE pattern = "flat" -> 4
    [] pattern = "ramp" -> 2 * r
    [] pattern = "saw"  -> 2 * (r % 5)
    [] pattern = "zeros" -> 0
    [] OTHER -> IF r % 3 = 0 THEN 1 ELSE 0      \* "some": a jump every third row

File(pattern, rows) == [r \in 0..(rows - 1) |-> FileValue(pattern, r)]

\* Files whose slice [25:-1] holds 0..MaxBlocks whole blocks, or one row more
RawRows ==
  { SliceStart + 1 + k * BlockSize + extra : k \in 0..MaxBlocks, extra \in {0, 1} }

\* A folder: biomass.tss, soildepth.tss, grazing.npy and, perhaps,
\* statevars_jumped.tss
RawFolders ==
  [rows : RawRows, B : {"flat", "ramp", "saw"}, D : {"flat", "ramp", "saw"},
   g : {"flat", "saw"}, jumped : {"missing", "zeros", "some"}]

NoFolder == [rows |-> 0, B |-> "flat", D |-> "flat", g |-> "flat", jumped |-> "missing"]

\* a[25:-1]
Slice(a) ==
  [i \in 0..(ALen(a) - 1 - SliceStart - 1) |-> a[SliceStart + i]]

\* a[::26]
Stride(a) ==
  [i \in 0..(((ALen(a) + BlockSize - 1) \div BlockSize) - 1) |-> a[i * BlockSize]]

\* The k-th smallest entry of a, k from 0
KthSmallest(a, k) ==
  CHOOSE v \in {a[i] : i \in DOMAIN a} :
    /\ Cardinality({i \in DOMAIN a : a[i] < v}) <= k
    /\ k < Cardinality({i \in DOMAIN a : a[i] <= v})

\* np.median of a non-empty array
median(a) ==
  LET n == ALen(a)
  IN  IF n % 2 = 1 THEN KthSmallest(a, n \div 2)
      ELSE (KthSmallest(a, n \div 2 - 1) + KthSmallest(a, n \div 2)) \div 2

\* Block b of a, the rows reshape(-1, 26, 3) puts together
Block(a, b) == [i \in 0..(BlockSize - 1) |-> a[b * BlockSize + i]]

LoaderStart ==
  [pc |-> "start", err |-> "none", biomass |-> Empty, soil_depth |-> Empty,
   grazing_pressure |-> Empty, jumps |-> Empty, X_sim |-> Empty,
   warned |-> FALSE, saved_rows |-> -1]

LoaderReturned == [LoaderStart EXCEPT !.pc = "returned"]

-----------------------------------------------------------------------------
(* train_models: its default argument and a call's record *)

\* add_train_vars=[None]*2, evaluated once, when the function is defined
DefaultVars == <<"None", "None">>

\* tuning_hp_vals = []
tuning_hp_vals == <<>>

\* list.append
append(list, x) == Append(list, x)

\* w_train, len_eq_train = add_train_vars: ok = FALSE where Python raises
\* ValueError because the list does not hold exactly two items
Unpack2(list) ==
  IF Len(list) = 2
  THEN [ok |-> TRUE, w_train |-> list[1], len_eq_train |-> list[2]]
  ELSE [ok |-> FALSE, w_train |-> "unbound", len_eq_train |-> "unbound"]

Modes == {"rf", "nn", "all"}

TmIdle ==
  [pc |-> "idle", mode |-> "all", sequential |-> FALSE, omitted |-> TRUE,
   entry |-> <<>>, w_train |-> "unbound", len_eq_train |-> "unbound",
   err |-> "none", ncalls |-> 0]

TrainingIdle ==
  /\ default_vars = DefaultVars
  /\ caller_vars = DefaultVars
  /\ train_summary = FALSE
  /\ tm = TmIdle

-----------------------------------------------------------------------------
(* One call of forward_simulation(nnetwork, rforest, sim_name) *)

NoOutcome == [t |-> Empty, B_for |-> Empty, D_for |-> Empty,
              B_nn |-> Empty, D_nn |-> Empty, pc |-> "none", err |-> "none"]

Locals0 ==
  /\ pc = "start" /\ err = "none"
  /\ B_true = Empty /\ D_true = Empty /\ g = Empty /\ jumps = Empty
  /\ n_years = 0 /\ n_steps = 0 /\ steps_progress = 0 /\ step = 0
  /\ B_for = Empty /\ D_for = Empty /\ B_nn = Empty /\ D_nn = Empty
  /\ t = Empty
  /\ progress = <<>>

\* sim_data has been handed over; nothing else has happened yet
Init ==
  /\ sim_data \in Trajectories
  /\ max_years \in MaxYearsValues
  /\ freq_progress \in FreqValues
  /\ Locals0
  /\ files = {} /\ csv_rows = -1
  /\ nn_memo = {} /\ rf_memo = {}
  /\ run = 1 /\ prev = NoOutcome
  /\ raw = NoFolder
  /\ loader = [LoaderReturned EXCEPT !.saved_rows = ALen(sim_data)]
  /\ TrainingIdle

\* lines 11-31: unpack the columns, read the initial values, size the run,
\* allocate the four arrays and cut the ground truth to n_steps
Setup ==
  /\ pc = "start"
  /\ jumps' = [i \in DOMAIN sim_data |-> sim_data[i].jumps]
  /\ LET Bt == [i \in DOMAIN sim_data |-> sim_data[i].B]
         Dt == [i \in DOMAIN sim_data |-> sim_data[i].D]
         gt == [i \in DOMAIN sim_data |-> sim_data[i].g]
         Bo == First(Bt)
         Do == First(Dt)
         ny == NYears(max_years, ALen(Bt))
         ns == NSteps(ny)
     IN  IF ~(Bo.ok /\ Do.ok)
         THEN /\ pc' = "failed" /\ err' = "IndexError"
              /\ B_true' = Bt /\ D_true' = Dt /\ g' = gt
              /\ UNCHANGED <<params, step, sims>>
         ELSE /\ pc' = "loop" /\ err' = "none"
              /\ n_years' = ny /\ n_steps' = ns
              /\ steps_progress' = StepsProgress(ns, freq_progress)
              /\ B_for' = Ones(ns, Bo.v) /\ D_for' = Ones(ns, Do.v)
              /\ B_nn' = Ones(ns, Bo.v) /\ D_nn' = Ones(ns, Do.v)
              /\ B_true' = Take(Bt, ns) /\ D_true' = Take(Dt, ns)
              /\ g' = Take(gt, ns)
              /\ step' = 1
  /\ UNCHANGED <<inputs, t, files, csv_rows, progress, memos, calls>>

InLoop == pc = "loop" /\ ~LoopDone(step, n_steps)

\* lines 36-38 of an iteration: the progress line
Progress ==
  progress' = IF ShowProgress(step, steps_progress)
              THEN Append(progress, step) ELSE progress

\* line 37 with steps_progress = 0: step % 0 raises ZeroDivisionError
LoopProgressFails ==
  /\ InLoop
  /\ steps_progress = 0
  /\ pc' = "failed" /\ err' = "ZeroDivisionError"
  /\ UNCHANGED <<inputs, truth, params, step, sims, t, files, csv_rows,
                 progress, memos, calls>>

\* lines 36-46: an iteration at a jump of the ground truth
LoopJump ==
  /\ InLoop
  /\ steps_progress # 0
  /\ Progress
  /\ jumps[step]
  /\ B_for' = Set(B_for, step, JumpValue(B_true, step))
  /\ D_for' = Set(D_for, step, JumpValue(D_true, step))
  /\ B_nn' = Set(B_nn, step, JumpValue(B_true, step))
  /\ D_nn' = Set(D_nn, step, JumpValue(D_true, step))
  /\ step' = step + 1
  /\ UNCHANGED <<inputs, pc, err, truth, params, t, files, csv_rows, memos,
                 calls>>

\* lines 36-50: an iteration in which a predictor raises; the exception is
\* not caught.  nnetwork is asked first, rforest only if nnetwork returned
LoopPredictorRaises ==
  /\ InLoop
  /\ steps_progress # 0
  /\ Progress
  /\ ~jumps[step]
  /\ LET xn == PredictorInput(B_nn, D_nn, g, step)
         xf == PredictorInput(B_for, D_for, g, step)
     IN  \E on, of \in Outcomes :
           /\ nnetwork_predict(nn_memo, xn, on)
           /\ nn_memo' = Remember(nn_memo, xn, on)
           /\ \/ /\ ~on.ok
                 /\ rf_memo' = rf_memo
              \/ /\ on.ok
                 /\ rforest_predict(rf_memo, xf, of)
                 /\ ~of.ok
                 /\ rf_memo' = Remember(rf_memo, xf, of)
  /\ pc' = "failed" /\ err' = "PredictorFailure"
  /\ UNCHANGED <<inputs, truth, params, step, sims, t, files, csv_rows, calls>>

\* lines 36-56: an iteration without a jump: ask both predictors, advance
\* both states by one explicit Euler step and floor them at 0
LoopEuler ==
  /\ InLoop
  /\ steps_progress # 0
  /\ Progress
  /\ ~jumps[step]
  /\ LET xn == PredictorInput(B_nn, D_nn, g, step)
         xf == PredictorInput(B_for, D_for, g, step)
     IN  \E nn_slopes, for_slopes \in Outcomes :
           /\ nnetwork_predict(nn_memo, xn, nn_slopes)
           /\ rforest_predict(rf_memo, xf, for_slopes)
           /\ nn_slopes.ok /\ for_slopes.ok
           /\ nn_memo' = Remember(nn_memo, xn, nn_slopes)
           /\ rf_memo' = Remember(rf_memo, xf, for_slopes)
           /\ B_for' = Set(B_for, step, Clamp(Euler(B_for[step - 1], for_slopes.dB)))
           /\ D_for' = Set(D_for, step, Clamp(Euler(D_for[step - 1], for_slopes.dD)))
           /\ B_nn' = Set(B_nn, step, Clamp(Euler(B_nn[step - 1], nn_slopes.dB)))
           /\ D_nn' = Set(D_nn, step, Clamp(Euler(D_nn[step - 1], nn_slopes.dD)))
  /\ step' = step + 1
  /\ UNCHANGED <<inputs, pc, err, truth, params, t, files, csv_rows, calls>>

\* lines 58-92: the time vector, the three plots, the figure file
SaveFigure ==
  /\ pc = "loop"
  /\ LoopDone(step, n_steps)
  /\ t' = linspace(0, n_years, n_steps)
  /\ files' = files \cup {"figure"}
  /\ pc' = "figure_saved"
  /\ UNCHANGED <<inputs, err, truth, params, step, sims, csv_rows, progress,
                 memos, calls>>

\* lines 94-116: the eight columns stacked and written, the correlations,
\* the summary returned
SaveResults ==
  /\ pc = "figure_saved"
  /\ LET arr == column_stack({ALen(t), ALen(B_true), ALen(D_true), ALen(g),
                              ALen(B_for), ALen(D_for), ALen(B_nn), ALen(D_nn)})
     IN  IF arr.ok
         THEN /\ files' = files \cup {"csv"}
              /\ csv_rows' = arr.rows
              /\ pc' = "done" /\ err' = "none"
         ELSE /\ pc' = "failed" /\ err' = "ValueError"
              /\ UNCHANGED <<files, csv_rows>>
  /\ UNCHANGED <<inputs, truth, params, step, sims, t, progress, memos, calls>>

Next ==
  \/ Setup
  \/ LoopProgressFails
  \/ LoopJump
  \/ LoopPredictorRaises
  \/ LoopEuler
  \/ SaveFigure
  \/ SaveResults

Spec == Init /\ [][Next]_vars

\* What a call leaves behind for its caller to compare
Outcome == [t |-> t, B_for |-> B_for, D_for |-> D_for,
            B_nn |-> B_nn, D_nn |-> D_nn, pc |-> pc, err |-> err]

\* forward_simulation is called again with the same arguments: every local
\* is fresh, the files on disk and the loaded models are what they were
Rerun ==
  /\ pc \in {"done", "failed"}
  /\ run < MaxRuns
  /\ run' = run + 1
  /\ prev' = Outcome
  /\ pc' = "start" /\ err' = "none"
  /\ B_true' = Empty /\ D_true' = Empty /\ g' = Empty /\ jumps' = Empty
  /\ n_years' = 0 /\ n_steps' = 0 /\ steps_progress' = 0 /\ step' = 0
  /\ B_for' = Empty /\ D_for' = Empty /\ B_nn' = Empty /\ D_nn' = Empty
  /\ t' = Empty
  /\ progress' = <<>>
  /\ UNCHANGED <<inputs, files, csv_rows, memos>>

NextTwice == Next \/ Rerun

SpecTwice == Init /\ [][NextTwice]_vars

-----------------------------------------------------------------------------
(* One call of preprocess_fwd_sim_data(sim_name), from its entry *)

InitLoad ==
  /\ raw \in RawFolders
  /\ loader = LoaderStart
  /\ sim_data = Empty
  /\ max_years \in MaxYearsValues
  /\ freq_progress \in FreqValues
  /\ Locals0
  /\ files = {} /\ csv_rows = -1
  /\ nn_memo = {} /\ rf_memo = {}
  /\ run = 1 /\ prev = NoOutcome
  /\ TrainingIdle

LoaderFrame ==
  UNCHANGED <<sim_data, max_years, freq_progress, raw, pc, err, truth, params,
              step, sims, t, files, csv_rows, progress, memos, calls, training>>

\* lines 123-129: the three series, sliced, grazing per year
LoadSeries ==
  /\ loader.pc = "start"
  /\ loader' = [loader EXCEPT
       !.pc = "series_loaded",
       !.biomass = Slice(File(raw.B, raw.rows)),
       !.soil_depth = Slice(File(raw.D, raw.rows)),
       !.grazing_pressure =
          [i \in DOMAIN Slice(File(raw.g, raw.rows)) |->
             Slice(File(raw.g, raw.rows))[i] * HoursPerDay * DaysPerYear]]
  /\ LoaderFrame

\* lines 132-133: the jumps file is there
LoadJumps ==
  /\ loader.pc = "series_loaded"
  /\ raw.jumped # "missing"
  /\ loader' = [loader EXCEPT
       !.pc = "jumps_loaded",
       !.jumps = [i \in DOMAIN Slice(File(raw.jumped, raw.rows)) |->
                   Slice(File(raw.jumped, raw.rows))[i] # 0]]
  /\ LoaderFrame

\* lines 134-136: FileNotFoundError is caught, the flags are all false and
\* a warning is printed
LoadJumpsMissing ==
  /\ loader.pc = "series_loaded"
  /\ raw.jumped = "missing"
  /\ loader' = [loader EXCEPT
       !.pc = "jumps_loaded",
       !.jumps = [i \in DOMAIN loader.biomass |-> FALSE],
       !.warned = TRUE]
  /\ LoaderFrame

\* lines 138-144: the three series side by side, cut into blocks of 26, the
\* median of each block, every 26th jump flag.  reshape raises ValueError
\* unless the length is a multiple of 26; apply_along_axis raises
\* ValueError on no block at all
Pool ==
  /\ loader.pc = "jumps_loaded"
  /\ LET n == ALen(loader.biomass)
         blocks == n \div BlockSize
     IN  IF n % BlockSize # 0 \/ blocks = 0
         THEN loader' = [loader EXCEPT !.pc = "failed", !.err = "ValueError"]
         ELSE loader' = [loader EXCEPT
                !.pc = "pooled",
                !.X_sim = [b \in 0..(blocks - 1) |->
                            <<median(Block(loader.biomass, b)),
                              median(Block(loader.soil_depth, b)),
                              median(Block(loader.grazing_pressure, b))>>],
                !.jumps = Stride(loader.jumps)]
  /\ LoaderFrame

\* lines 146-151: biomass, soil_depth, grazing_pressure and jumps stacked as
\* columns, written to <sim_name>.csv and returned.  column_stack raises
\* ValueError when the columns differ in length
JoinAndSave ==
  /\ loader.pc = "pooled"
  /\ LET arr == column_stack({ALen(loader.biomass), ALen(loader.soil_depth),
                              ALen(loader.grazing_pressure), ALen(loader.jumps)})
     IN  IF arr.ok
         THEN /\ sim_data' = [i \in 0..(arr.rows - 1) |->
                               [B |-> loader.biomass[i], D |-> loader.soil_depth[i],
                                g |-> loader.grazing_pressure[i],
                                jumps |-> loader.jumps[i]]]
              /\ loader' = [loader EXCEPT !.pc = "returned", !.saved_rows = arr.rows]
         ELSE /\ sim_data' = sim_data
              /\ loader' = [loader EXCEPT !.pc = "failed", !.err = "ValueError"]
  /\ UNCHANGED <<max_years, freq_progress, raw, pc, err, truth, params,
                 step, sims, t, files, csv_rows, progress, memos, calls, training>>

NextLoad ==
  \/ LoadSeries
  \/ LoadJumps
  \/ LoadJumpsMissing
  \/ Pool
  \/ JoinAndSave

SpecLoad == InitLoad /\ [][NextLoad]_vars

-----------------------------------------------------------------------------
(* Calls of train_models(train_val_data, add_train_vars, mode, sequential) *)

\* The module has been imported; a caller holds a two-item list of its own
InitTrain ==
  /\ default_vars = DefaultVars
  /\ caller_vars \in {<<"None", "None">>, <<"w_train", "len_eq_train">>}
  /\ train_summary \in BOOLEAN
  /\ tm = TmIdle
  /\ sim_data = Empty
  /\ max_years = 1
  /\ freq_progress = [num |-> 1, den |-> 1]
  /\ Locals0
  /\ files = {} /\ csv_rows = -1
  /\ nn_memo = {} /\ rf_memo = {}
  /\ run = 1 /\ prev = NoOutcome
  /\ raw = NoFolder /\ loader = LoaderStart

TrainFrame ==
  UNCHANGED <<sim_data, max_years, freq_progress, raw, loader, pc, err, truth,
              params, step, sims, t, files, csv_rows, progress, memos, calls>>

\* The list object the name add_train_vars is bound to in the call
Bound == IF tm.omitted THEN default_vars ELSE caller_vars

\* lines 13-18: the arguments are bound and unpacked
Enter(list, mode, sequential, omitted) ==
  /\ tm.pc \in {"idle", "returned", "failed"}
  /\ tm.ncalls < MaxCalls
  /\ LET u == Unpack2(list)
     IN  tm' = [pc |-> IF u.ok THEN "entered" ELSE "failed",
                mode |-> mode, sequential |-> sequential, omitted |-> omitted,
                entry |-> list,
                w_train |-> u.w_train, len_eq_train |-> u.len_eq_train,
                err |-> IF u.ok THEN "none" ELSE "ValueError",
                ncalls |-> tm.ncalls + 1]
  /\ UNCHANGED <<default_vars, caller_vars, train_summary>>
  /\ TrainFrame

\* train_models(data, mode=..., sequential=...): add_train_vars is the default
CallOmitting ==
  \E mode \in Modes, sequential \in BOOLEAN :
    Enter(default_vars, mode, sequential, TRUE)

\* train_models(data, vars, ...): add_train_vars is the caller's list
CallPassing ==
  \E mode \in Modes, sequential \in BOOLEAN :
    Enter(caller_vars, mode, sequential, FALSE)

\* lines 36-69: the random forest is fitted and saved
TrainForest ==
  /\ tm.pc = "entered"
  /\ tm.mode \in {"rf", "all"}
  /\ tm' = [tm EXCEPT !.pc = "forest_done"]
  /\ UNCHANGED <<default_vars, caller_vars, train_summary>>
  /\ TrainFrame

AtNetwork ==
  \/ tm.pc = "entered" /\ tm.mode = "nn"
  \/ tm.pc = "forest_done" /\ tm.mode = "all"

\* line 79 in mode 'nn' with sequential data: y_train is still the pair of
\* data sets, and y_train[:,0] raises TypeError if the pair is a list
NetworkStdFails ==
  /\ AtNetwork
  /\ tm.mode = "nn" /\ tm.sequential
  /\ tm' = [tm EXCEPT !.pc = "failed", !.err = "TypeError"]
  /\ UNCHANGED <<default_vars, caller_vars, train_summary>>
  /\ TrainFrame

\* lines 71-174: the hyperparameters and the loss are appended to
\* add_train_vars (lines 107-108), hp_tuning is called if there are values
\* to tune, the network is fitted and saved
TrainNetwork ==
  /\ AtNetwork
  /\ LET grown == append(append(Bound, "hp"), "custom_mae")
     IN  /\ IF tm.omitted
            THEN default_vars' = grown /\ caller_vars' = caller_vars
            ELSE caller_vars' = grown /\ default_vars' = default_vars
         /\ tm' = [tm EXCEPT
               !.pc = IF tuning_hp_vals # <<>> /\ Len(grown) # 4
                      THEN "failed" ELSE "network_done",
               !.err = IF tuning_hp_vals # <<>> /\ Len(grown) # 4
                       THEN "ValueError" ELSE "none"]
  /\ UNCHANGED train_summary
  /\ TrainFrame

\* lines 176-203: with one model trained the other's summary is read from
\* train_summary.pkl (FileNotFoundError if there is none); the summary is
\* written and the call returns
Finish ==
  /\ \/ tm.pc = "forest_done" /\ tm.mode = "rf"
     \/ tm.pc = "network_done"
  /\ IF tm.mode \in {"rf", "nn"} /\ ~train_summary
     THEN /\ tm' = [tm EXCEPT !.pc = "failed", !.err = "FileNotFoundError"]
          /\ UNCHANGED train_summary
     ELSE /\ tm' = [tm EXCEPT !.pc = "returned"]
          /\ train_summary' = TRUE
  /\ UNCHANGED <<default_vars, caller_vars>>
  /\ TrainFrame

NextTrain ==
  \/ CallOmitting
  \/ CallPassing
  \/ TrainForest
  \/ NetworkStdFails
  \/ TrainNetwork
  \/ Finish

SpecTrain == InitTrain /\ [][NextTrain]_vars

-----------------------------------------------------------------------------
(* Claims *)

\* The indices the step loop has been through
Processed == 1..(step - 1)

\* slope*dt, written out
Increment(slope) == (slope * DtNum) \div DtDen

\* The slopes each predictor returned for the state before index i
ForSlopes(i) == Lookup(rf_memo, <<B_for[i - 1], D_for[i - 1], sim_data[i - 1].g>>)
NnSlopes(i) == Lookup(nn_memo, <<B_nn[i - 1], D_nn[i - 1], sim_data[i - 1].g>>)

\* C1: whatever the jump flags and the slopes, every entry of the four
\* simulated arrays is >= 0, index 0, jump steps and the entries the loop
\* has not reached yet included, after every iteration.
C1_NonNegative ==
  \A a \in {B_for, D_for, B_nn, D_nn} : \A i \in DOMAIN a : a[i] >= 0

\* A finished run in which the floor acted: the forest's Euler value for D
\* was below zero and 0 was stored.
C1_Witness ==
  /\ pc = "done"
  /\ \E i \in Processed :
       /\ ~jumps[i]
       /\ D_for[i - 1] + Increment(ForSlopes(i).dD) < 0
       /\ D_for[i] = 0

\* C2: at every index the loop has been through whose ground-truth jump flag
\* is true, both predictors' B and D equal the ground truth at that index.
C2_JumpOverride ==
  \A i \in Processed :
    jumps[i] =>
      /\ B_for[i] = sim_data[i].B /\ B_nn[i] = sim_data[i].B
      /\ D_for[i] = sim_data[i].D /\ D_nn[i] = sim_data[i].D

\* A finished run with a jump at an index whose predecessor was simulated
\* and had drifted away from the ground truth.
C2_Witness ==
  /\ pc = "done"
  /\ \E i \in Processed :
       /\ i >= 2 /\ jumps[i] /\ ~jumps[i - 1]
       /\ B_for[i - 1] # sim_data[i - 1].B
       /\ D_nn[i - 1] # sim_data[i - 1].D
       /\ B_for[i] # B_for[i - 1]

\* C3: at every index i the loop has been through without a jump, each
\* predictor's B and D equal max(own state at i-1 + own slope * dt, 0), the
\* slope being what that predictor returned for (own B[i-1], own D[i-1],
\* g[i-1]); and a state at i-1 written by a jump is the ground truth.
C3_UpdateLaw ==
  \A i \in Processed :
    ~jumps[i] =>
      /\ Seen(rf_memo, <<B_for[i - 1], D_for[i - 1], sim_data[i - 1].g>>)
      /\ Seen(nn_memo, <<B_nn[i - 1], D_nn[i - 1], sim_data[i - 1].g>>)
      /\ ForSlopes(i).ok /\ NnSlopes(i).ok
      /\ B_for[i] = Max(B_for[i - 1] + Increment(ForSlopes(i).dB), 0)
      /\ D_for[i] = Max(D_for[i - 1] + Increment(ForSlopes(i).dD), 0)
      /\ B_nn[i] = Max(B_nn[i - 1] + Increment(NnSlopes(i).dB), 0)
      /\ D_nn[i] = Max(D_nn[i - 1] + Increment(NnSlopes(i).dD), 0)
      /\ (i >= 2 /\ jumps[i - 1]) =>
            /\ B_for[i - 1] = sim_data[i - 1].B /\ B_nn[i - 1] = sim_data[i - 1].B
            /\ D_for[i - 1] = sim_data[i - 1].D /\ D_nn[i - 1] = sim_data[i - 1].D

\* A finished run with an Euler step right after a jump, in which the two
\* predictors returned different slopes.
C3_Witness ==
  /\ pc = "done"
  /\ \E i \in Processed :
       /\ i >= 2 /\ ~jumps[i] /\ jumps[i - 1]
       /\ ForSlopes(i) # NnSlopes(i)
       /\ B_for[i] # B_nn[i]

\* The call got past the reading of the initial values
Sized == pc \in {"loop", "figure_saved", "done"} \/ (pc = "failed" /\ err # "IndexError")

\* min(max_horizon, dt*L), in ticks
Horizon == IF max_years <= dt * ALen(sim_data) THEN max_years ELSE dt * ALen(sim_data)

\* C4: for a trajectory of length L >= 1, n_steps is the floor of
\* min(max_horizon, dt*L)/dt and at most L; the truncated ground truth and
\* the four simulated arrays have length n_steps, so has the time vector
\* once it exists, and the csv file has n_steps rows.
C4_HorizonLaw ==
  (ALen(sim_data) >= 1 /\ Sized) =>
    /\ n_steps * dt <= Horizon /\ Horizon < (n_steps + 1) * dt
    /\ n_steps <= ALen(sim_data)
    /\ \A a \in {B_true, D_true, g, B_for, D_for, B_nn, D_nn} :
         DOMAIN a = 0..(n_steps - 1)
    /\ pc \in {"figure_saved", "done"} => DOMAIN t = 0..(n_steps - 1)
    /\ pc = "done" => csv_rows = n_steps

\* A finished run cut short by max_years, the horizon not a multiple of dt.
C4_Witness ==
  /\ pc = "done"
  /\ n_steps >= 2 /\ n_steps < ALen(sim_data)
  /\ Horizon > n_steps * dt
  /\ csv_rows = n_steps

\* C5: the time vector has length n_steps and its entry k is k*dt, so it
\* starts at 0, ends at (n_steps-1)*dt and advances by dt.
C5_TimeVector ==
  pc \in {"figure_saved", "done"} =>
    /\ DOMAIN t = 0..(n_steps - 1)
    /\ \A k \in DOMAIN t : t[k].num = k * dt * t[k].den

RawSamples == raw.rows - SliceStart - 1

LoaderEnded == loader.pc \in {"returned", "failed"}

\* C9: for raw series of whole blocks, the loader returns one row per block
\* of 26 raw samples: B, D and g are the block's medians, jumps is one flag
\* per block, and the four columns have the same length.
C9_BlockReduced ==
  (LoaderEnded /\ RawSamples > 0 /\ RawSamples % BlockSize = 0) =>
    /\ loader.pc = "returned"
    /\ DOMAIN sim_data = 0..(RawSamples \div BlockSize - 1)
    /\ \A b \in DOMAIN sim_data :
         /\ sim_data[b].B = median(Block(Slice(File(raw.B, raw.rows)), b))
         /\ sim_data[b].D = median(Block(Slice(File(raw.D, raw.rows)), b))
         /\ sim_data[b].g =
              median(Block(Slice(File(raw.g, raw.rows)), b)) * HoursPerDay * DaysPerYear

\* C10: with the jumps file missing the loader does not fail: it warns and
\* returns a trajectory whose jump flags are all false.
C10_MissingJumpsRecovered ==
  (LoaderEnded /\ raw.jumped = "missing"
     /\ RawSamples > 0 /\ RawSamples % BlockSize = 0) =>
    /\ loader.pc = "returned"
    /\ loader.warned
    /\ \A i \in DOMAIN sim_data : ~sim_data[i].jumps

\* ceil(n_steps * cfg.freq_progress)
CeilProgress ==
  (n_steps * freq_progress.num + freq_progress.den - 1) \div freq_progress.den

\* C11: for n_steps >= 1 and a progress frequency in (0, 1], the interval of
\* the progress line is ceil(n_steps * freq_progress), at least 1; a finished
\* run has printed progress at exactly the steps of 1..n_steps-1 that are
\* multiples of it; and the progress check never aborts the run.
C11_ProgressCheckpoints ==
  (Sized /\ n_steps >= 1) =>
    /\ steps_progress = CeilProgress
    /\ steps_progress >= 1
    /\ err # "ZeroDivisionError"
    /\ pc = "done" =>
         /\ {progress[k] : k \in DOMAIN progress} =
              {i \in 1..(n_steps - 1) : i % CeilProgress = 0}
         /\ Len(progress) = Cardinality({i \in 1..(n_steps - 1) : i % CeilProgress = 0})

\* C12: every call of train_models that omits add_train_vars finds the
\* default [None, None] at entry and unpacks it; no call changes the default
\* list a later call receives, nor the length of a list a caller passed in.
C12_DefaultPreserved ==
  /\ default_vars = <<"None", "None">>
  /\ Len(caller_vars) = 2
  /\ (tm.pc # "idle" /\ tm.omitted) =>
       /\ tm.entry = <<"None", "None">>
       /\ tm.err # "ValueError"
       /\ (tm.w_train = "None" /\ tm.len_eq_train = "None")
====
